---------------------------- MODULE Spec2Model ----------------------------
(*
  A state-machine model of the PyVM instruction engine:
    VM/Memory.py                Memory.get / set / fill
    VM/CPU.py                   CPU32.__init__, stack_push, stack_pop
    VM/instructions/bitwise.py  BITWISE, NEGNOT, SHIFT handlers
  The register file (VM/Registers.py), the decoder helpers (VM/util.py,
  VM/misc.py) and the fetch loop are not part of the sources at hand; they
  are modelled after the design document and marked so in the model map.

  Python integers are unbounded.  Data values are therefore modelled as
  two's-complement bit vectors of IntBits bits (wide enough for a 32-bit
  operand shifted left 31 times); addresses are modelled as integers.
*)
EXTENDS Integers, Sequences, FiniteSets, TLC

VARIABLES
    memory,            \* Memory.memory: the byte buffer (address a is memory[a+1])
    reg,               \* Reg32: eight registers, each four little-endian bytes
    eflags,            \* Reg32: the flag bits
    eip,               \* CPU32.eip
    operand_size,      \* CPU32.operand_size
    code_segment_end,  \* CPU32.code_segment_end
    pc,                \* position of the fetch loop: "fetch", "dispatch", "error"
    cand,              \* handlers registered at the fetched opcode, not yet tried
    hist               \* the operations performed so far, each with the state before and after

vars == <<memory, reg, eflags, eip, operand_size, code_segment_end, pc, cand, hist>>

-----------------------------------------------------------------------------
(* Bounds of the model *)

MemSize == 16        \* memsize given to CPU32(memsize) / Memory(size)
MaxMemOps == 2       \* Memory operations in one behaviour of SpecMem
MaxStackOps == 4     \* stack operations in one behaviour of SpecStack
MaxResetOps == 8     \* stack operations in one behaviour of SpecReset

-----------------------------------------------------------------------------
(* Integers and bytes *)

IntBytes == 8
IntBits == 8 * IntBytes

Byte == 0..255

eax == 0
ecx == 1
edx == 2
ebx == 3
esp == 4
ebp == 5
esi == 6
edi == 7

Flags == {"CF", "PF", "AF", "ZF", "SF", "OF"}

Bit(x, i) == (x \div (2^i)) % 2

BitIdx == 0..(IntBits - 1)

\* util.to_int(data, signed): little-endian bytes to an integer (here a bit vector)
to_int(data, signed) ==
    [i \in BitIdx |->
        IF i < 8 * Len(data) THEN Bit(data[(i \div 8) + 1], i % 8)
        ELSE IF signed /\ Len(data) > 0 THEN Bit(data[Len(data)], 7)
        ELSE 0]

\* int.to_bytes(sz, byteorder) of a value already masked to sz bytes
to_bytes(x, sz) ==
    [k \in 1..sz |->
        x[8*(k-1)] + 2*x[8*(k-1)+1] + 4*x[8*(k-1)+2] + 8*x[8*(k-1)+3]
        + 16*x[8*(k-1)+4] + 32*x[8*(k-1)+5] + 64*x[8*(k-1)+6] + 128*x[8*(k-1)+7]]

IntZero == [i \in BitIdx |-> 0]
IntOne == [i \in BitIdx |-> IF i = 0 THEN 1 ELSE 0]

\* operator.and_ / operator.or_ / operator.xor on Python integers
and_(a, b) == [i \in BitIdx |-> IF a[i] = 1 /\ b[i] = 1 THEN 1 ELSE 0]
or_(a, b) == [i \in BitIdx |-> IF a[i] = 1 \/ b[i] = 1 THEN 1 ELSE 0]
xor(a, b) == [i \in BitIdx |-> IF a[i] # b[i] THEN 1 ELSE 0]

\* dst <<= 1 and dst >>= 1 (Python's >> keeps the sign)
Shl1(a) == [i \in BitIdx |-> IF i = 0 THEN 0 ELSE a[i-1]]
Shr1(a) == [i \in BitIdx |-> IF i = IntBits - 1 THEN a[i] ELSE a[i+1]]

\* binary addition, byte by byte from the least significant, modulo 2^IntBits
RECURSIVE AddBytes(_, _, _, _, _)
AddBytes(a, b, k, carry, acc) ==
    IF k > IntBytes THEN acc
    ELSE LET t == a[k] + b[k] + carry
         IN  AddBytes(a, b, k + 1, t \div 256, Append(acc, t % 256))

AddWithCarry(a, b, cin) ==
    to_int(AddBytes(to_bytes(a, IntBytes), to_bytes(b, IntBytes), 1, cin, <<>>), FALSE)

Plus(a, b) == AddWithCarry(a, b, 0)
Minus(a, b) == AddWithCarry(a, [i \in BitIdx |-> 1 - b[i]], 1)

\* MAXVALS[n]: the maximum value of an unsigned n-byte number
MAXVALS(n) == [i \in BitIdx |-> IF i < 8 * n THEN 1 ELSE 0]

\* misc.parity(byte, sz): 1 when the byte has an even number of one bits
parity(byte, sz) ==
    IF (Bit(byte, 0) + Bit(byte, 1) + Bit(byte, 2) + Bit(byte, 3)
        + Bit(byte, 4) + Bit(byte, 5) + Bit(byte, 6) + Bit(byte, 7)) % 2 = 0
    THEN 1 ELSE 0

\* an address or a length held in little-endian bytes, as an unsigned integer;
\* values of 2^24 and more all lie beyond any memory of the model and are
\* identified with FarAway
FarAway == 256 * 65536

to_addr(data) ==
    IF Len(data) >= 4 /\ data[4] > 0 THEN FarAway
    ELSE IF Len(data) = 0 THEN 0
    ELSE data[1]
         + (IF Len(data) >= 2 THEN 256 * data[2] ELSE 0)
         + (IF Len(data) >= 3 THEN 65536 * data[3] ELSE 0)

\* int.to_bytes(n, byteorder) of a small non-negative address
addr_bytes(a, n) == [k \in 1..n |-> (a \div (256^(k-1))) % 256]

-----------------------------------------------------------------------------
(* Memory (VM/Memory.py) *)

\* self.bounds = range(size)
bounds(mem) == 0..(Len(mem) - 1)

Memory_init(size) == [k \in 1..size |-> 0]

\* Memory.get: [ok, val]
Memory_get(mem, offset, size) ==
    IF offset \notin bounds(mem) THEN [ok |-> FALSE, val |-> <<>>]
    ELSE IF (offset + size) \notin bounds(mem) THEN [ok |-> FALSE, val |-> <<>>]
    ELSE [ok |-> TRUE, val |-> SubSeq(mem, offset + 1, offset + size)]

\* Memory.set: [ok, mem]
Memory_set(mem, offset, value) ==
    LET size == Len(value) IN
    IF offset \notin bounds(mem) THEN [ok |-> FALSE, mem |-> mem]
    ELSE IF (offset + size) \notin bounds(mem) THEN [ok |-> FALSE, mem |-> mem]
    ELSE [ok |-> TRUE,
          mem |-> SubSeq(mem, 1, offset) \o value \o SubSeq(mem, offset + size + 1, Len(mem))]

\* Memory.fill: [ok, mem]
Memory_fill(mem, offset, value) ==
    IF offset \notin bounds(mem) THEN [ok |-> FALSE, mem |-> mem]
    ELSE IF value \notin 0..255 THEN [ok |-> FALSE, mem |-> mem]
    ELSE [ok |-> TRUE,
          mem |-> [k \in 1..Len(mem) |-> IF k - 1 >= offset THEN value ELSE mem[k]]]

-----------------------------------------------------------------------------
(* Register file (VM/Registers.py, after the design document) *)

\* Reg32.get(index, size): [ok, val].  A one-byte access to index 4..7 is
\* AH/CH/DH/BH, byte 1 of registers 0..3.
Reg_get(r, index, size) ==
    IF index \notin 0..7 THEN [ok |-> FALSE, val |-> <<>>]
    ELSE IF size = 1 /\ index >= 4 THEN [ok |-> TRUE, val |-> <<r[index - 4][2]>>]
    ELSE [ok |-> TRUE, val |-> SubSeq(r[index], 1, size)]

\* Reg32.set(index, value): [ok, reg]; the rest of the register is kept
Reg_set(r, index, value) ==
    IF index \notin 0..7 THEN [ok |-> FALSE, reg |-> r]
    ELSE IF Len(value) = 1 /\ index >= 4
         THEN [ok |-> TRUE, reg |-> [r EXCEPT ![index - 4][2] = value[1]]]
    ELSE [ok |-> TRUE,
          reg |-> [r EXCEPT ![index] = value \o SubSeq(@, Len(value) + 1, 4)]]

\* Reg32.eflags_set(bit, value) on a CPU state
eflags_set(vm, bit, value) == [vm EXCEPT !.eflags[bit] = value]

\* Python's True / False stored in a flag bit
Bool(b) == IF b THEN 1 ELSE 0

-----------------------------------------------------------------------------
(* CPU32 (VM/CPU.py) *)

stack_address_size == 4

ZeroReg == <<0, 0, 0, 0>>

\* CPU32.__init__(memsize): the reset state
CPU32_init(memsize) ==
    [memory |-> Memory_init(memsize),
     reg |-> [i \in 0..7 |-> IF i \in {esp, ebp} THEN addr_bytes(memsize - 1, 4) ELSE ZeroReg],
     eflags |-> [f \in Flags |-> 0],
     eip |-> 0,
     operand_size |-> 4,
     code_segment_end |-> 0]

\* outcome of a CPU operation: how it ended and the state it left
Raised(kind, vm) == [out |-> kind, ret |-> <<>>, vm |-> vm]
Returned(what, ret, vm) == [out |-> what, ret |-> ret, vm |-> vm]

\* a stack_push without the test against code_segment_end
stack_push_unchecked(vm, value) ==
    LET new_esp == to_addr(Reg_get(vm.reg, esp, stack_address_size).val) - vm.operand_size
        st == Memory_set(vm.memory, new_esp, value)
    IN  IF ~st.ok THEN Raised("OutOfBounds", vm)
        ELSE Returned("ok", <<>>,
                 [vm EXCEPT !.memory = st.mem,
                            !.reg = Reg_set(vm.reg, esp, addr_bytes(new_esp, stack_address_size)).reg])

\* CPU32.stack_push(value)
stack_push(vm, value) ==
    LET new_esp == to_addr(Reg_get(vm.reg, esp, stack_address_size).val) - vm.operand_size
        st == Memory_set(vm.memory, new_esp, value)
    IN  IF new_esp < vm.code_segment_end THEN Raised("StackOverflow", vm)
        ELSE IF ~st.ok THEN Raised("OutOfBounds", vm)
        ELSE Returned("ok", <<>>,
                 [vm EXCEPT !.memory = st.mem,
                            !.reg = Reg_set(vm.reg, esp, addr_bytes(new_esp, stack_address_size)).reg])

\* a stack_pop that advances ESP by the width of the stack pointer, not by size
stack_pop_by_address_size(vm, size) ==
    LET old_esp == to_addr(Reg_get(vm.reg, esp, stack_address_size).val)
        data == Memory_get(vm.memory, old_esp, size)
    IN  IF ~data.ok THEN Raised("OutOfBounds", vm)
        ELSE Returned("ok", data.val,
                 [vm EXCEPT !.reg = Reg_set(vm.reg, esp,
                                        addr_bytes(old_esp + stack_address_size,
                                                   stack_address_size)).reg])

\* CPU32.stack_pop(size)
stack_pop(vm, size) ==
    LET old_esp == to_addr(Reg_get(vm.reg, esp, stack_address_size).val)
        data == Memory_get(vm.memory, old_esp, size)
    IN  IF ~data.ok THEN Raised("OutOfBounds", vm)
        ELSE Returned("ok", data.val,
                 [vm EXCEPT !.reg = Reg_set(vm.reg, esp, addr_bytes(old_esp + size, stack_address_size)).reg])

-----------------------------------------------------------------------------
(* Decoder (VM/util.py, after the design document) *)

\* a displacement: little-endian bytes read as a signed number
to_signed(data) ==
    IF Len(data) > 0 /\ data[Len(data)] >= 128
    THEN 0 - (to_addr([k \in 1..Len(data) |-> 255 - data[k]]) + 1)
    ELSE to_addr(data)

DecodeFailed(at) ==
    [ok |-> FALSE, eip |-> at,
     RM |-> [type |-> 0, loc |-> 0, size |-> 0], R |-> [type |-> 0, loc |-> 0, size |-> 0]]

Decoded(at, type, loc, regf, op_size) ==
    [ok |-> TRUE, eip |-> at,
     RM |-> [type |-> type, loc |-> loc, size |-> op_size],
     R |-> [type |-> 0, loc |-> regf, size |-> op_size]]

\* the displacement that follows the addressing bytes, and the decoded operand
WithDisp(vm, at, mod, base, regf, op_size) ==
    LET n == IF mod = 1 THEN 1 ELSE IF mod = 2 THEN op_size ELSE 0
        d == Memory_get(vm.memory, at, n)
    IN  IF n = 0 THEN Decoded(at, 1, base, regf, op_size)
        ELSE IF ~d.ok THEN DecodeFailed(at)
        ELSE Decoded(at + n, 1, base + to_signed(d.val), regf, op_size)

\* SIB addressing (rm = 4, mod # 3)
WithSIB(vm, at, mod, regf, addr_size, op_size) ==
    LET s == Memory_get(vm.memory, at, 1)
        sib == s.val[1]
        scale == sib \div 64
        index == (sib \div 8) % 8
        base == sib % 8
        idx == IF index = 4 THEN 0 ELSE to_addr(vm.reg[index]) * (2^scale)
        d32 == Memory_get(vm.memory, at + 1, 4)
    IN  IF ~s.ok THEN DecodeFailed(at)
        ELSE IF base = 5 /\ mod = 0
             THEN IF ~d32.ok THEN DecodeFailed(at + 1)
                  ELSE Decoded(at + 1 + 4, 1, to_signed(d32.val) + idx, regf, op_size)
        ELSE WithDisp(vm, at + 1, mod, to_addr(vm.reg[base]) + idx, regf, op_size)

\* CPU.process_ModRM(addr_size, operand_size): consumes ModR/M, SIB and
\* displacement at eip; [ok, eip, RM, R] with RM.type = 1 for memory
process_ModRM(vm, addr_size, op_size) ==
    LET m == Memory_get(vm.memory, vm.eip, 1)
        modrm == m.val[1]
        mod == modrm \div 64
        regf == (modrm \div 8) % 8
        rm == modrm % 8
        at == vm.eip + 1
        d32 == Memory_get(vm.memory, at, 4)
    IN  IF ~m.ok THEN DecodeFailed(vm.eip)
        ELSE IF mod = 3 THEN Decoded(at, 0, rm, regf, op_size)
        ELSE IF rm = 4 THEN WithSIB(vm, at, mod, regf, addr_size, op_size)
        ELSE IF rm = 5 /\ mod = 0
             THEN IF ~d32.ok THEN DecodeFailed(at)
                  ELSE Decoded(at + 4, 1, to_signed(d32.val), regf, op_size)
        ELSE WithDisp(vm, at, mod, to_addr(vm.reg[rm]), regf, op_size)

\* (vm.mem if type else vm.reg).get(loc, sz): [ok, val]
Operand_get(vm, type, loc, sz) ==
    IF type # 0 THEN Memory_get(vm.memory, loc, sz) ELSE Reg_get(vm.reg, loc, sz)

\* (vm.mem if type else vm.reg).set(loc, value): [ok, vm]
Operand_set(vm, type, loc, value) ==
    IF type # 0
    THEN LET st == Memory_set(vm.memory, loc, value)
         IN  [ok |-> st.ok, vm |-> [vm EXCEPT !.memory = st.mem]]
    ELSE LET st == Reg_set(vm.reg, loc, value)
         IN  [ok |-> st.ok, vm |-> [vm EXCEPT !.reg = st.reg]]

-----------------------------------------------------------------------------
(* Instruction handlers (VM/instructions/bitwise.py) *)

\* operation(a, b) for operation in operator.and_, operator.or_, operator.xor
Apply(operation, a, b) ==
    CASE operation = "and_" -> and_(a, b)
      [] operation = "or_" -> or_(a, b)
      [] operation = "xor" -> xor(a, b)

\* the common tail of the BITWISE handlers: SF from c, mask, ZF, to_bytes, PF
\* (eflags_set SF .. eflags_set PF); [vm, c] with c the result bytes
BitwiseFlags(vm, c, sz) ==
    LET v1 == eflags_set(vm, "SF", c[sz * 8 - 1])
        cm == and_(c, MAXVALS(sz))
        v2 == eflags_set(v1, "ZF", Bool(cm = IntZero))
        cb == to_bytes(cm, sz)
        v3 == eflags_set(v2, "PF", parity(cb[1], sz))
    IN  [vm |-> v3, c |-> cb]

\* BITWISE.r_imm: accumulator with immediate
r_imm(vm, _8bit, operation, test) ==
    LET sz == IF _8bit THEN 1 ELSE vm.operand_size
        imm == Memory_get(vm.memory, vm.eip, sz)
        v1 == [vm EXCEPT !.eip = @ + sz]
        b == to_int(imm.val, FALSE)
        a == to_int(Reg_get(v1.reg, 0, sz).val, FALSE)
        v2 == eflags_set(eflags_set(v1, "OF", 0), "CF", 0)
        f == BitwiseFlags(v2, Apply(operation, a, b), sz)
    IN  IF ~imm.ok THEN Raised("OutOfBounds", vm)
        ELSE IF ~test
             THEN Returned("accepted", <<>>, [f.vm EXCEPT !.reg = Reg_set(@, 0, f.c).reg])
        ELSE Returned("accepted", <<>>, f.vm)

\* BITWISE.rm_imm: r/m with immediate, selected by the reg field.
\* sign_extend is not a name of the module (it is not among the imports at
\* lines 1-7), so the call at line 143 raises NameError and the lines after
\* it never run.
rm_imm_decoded(vm, imm_sz, operation, test, d) ==
    LET old_eip == vm.eip
        v1 == [vm EXCEPT !.eip = d.eip]
        imm == Memory_get(v1.memory, v1.eip, imm_sz)
        v2 == [v1 EXCEPT !.eip = @ + imm_sz]
    IN  IF ~d.ok THEN Raised("OutOfBounds", v1)
        ELSE IF operation = "and_" /\ ~test /\ d.R.loc # 4
             THEN Returned("rejected", <<>>, [v1 EXCEPT !.eip = old_eip])
        ELSE IF operation = "and_" /\ test /\ d.R.loc # 0
             THEN Returned("rejected", <<>>, [v1 EXCEPT !.eip = old_eip])
        ELSE IF operation = "or_" /\ d.R.loc # 1
             THEN Returned("rejected", <<>>, [v1 EXCEPT !.eip = old_eip])
        ELSE IF operation = "xor" /\ d.R.loc # 6
             THEN Returned("rejected", <<>>, [v1 EXCEPT !.eip = old_eip])
        ELSE IF ~imm.ok THEN Raised("OutOfBounds", v1)
        ELSE Raised("NameError", v2)

rm_imm(vm, _8bit, _8bit_imm, operation, test) ==
    LET sz == IF _8bit THEN 1 ELSE vm.operand_size
        imm_sz == IF _8bit_imm THEN 1 ELSE vm.operand_size
    IN  rm_imm_decoded(vm, imm_sz, operation, test, process_ModRM(vm, sz, sz))

\* BITWISE.rm_r: r/m with register, result to r/m
rm_r_decoded(vm, sz, operation, test, d) ==
    LET v1 == [vm EXCEPT !.eip = d.eip]
        v2 == eflags_set(eflags_set(v1, "OF", 0), "CF", 0)
        ga == Operand_get(v2, d.RM.type, d.RM.loc, sz)
        gb == Reg_get(v2.reg, d.R.loc, sz)
        f == BitwiseFlags(v2, Apply(operation, to_int(ga.val, FALSE), to_int(gb.val, FALSE)), sz)
        st == Operand_set(f.vm, d.RM.type, d.RM.loc, f.c)
    IN  IF ~d.ok THEN Raised("OutOfBounds", v1)
        ELSE IF ~ga.ok THEN Raised("OutOfBounds", v2)
        ELSE IF test THEN Returned("accepted", <<>>, f.vm)
        ELSE IF ~st.ok THEN Raised("OutOfBounds", f.vm)
        ELSE Returned("accepted", <<>>, st.vm)

rm_r(vm, _8bit, operation, test) ==
    LET sz == IF _8bit THEN 1 ELSE vm.operand_size
    IN  rm_r_decoded(vm, sz, operation, test, process_ModRM(vm, sz, sz))

\* BITWISE.r_rm: register with r/m, result to the register
r_rm_decoded(vm, sz, operation, test, d) ==
    LET v1 == [vm EXCEPT !.eip = d.eip]
        v2 == eflags_set(eflags_set(v1, "OF", 0), "CF", 0)
        ga == Operand_get(v2, d.RM.type, d.RM.loc, sz)
        gb == Reg_get(v2.reg, d.R.loc, sz)
        f == BitwiseFlags(v2, Apply(operation, to_int(ga.val, FALSE), to_int(gb.val, FALSE)), sz)
    IN  IF ~d.ok THEN Raised("OutOfBounds", v1)
        ELSE IF ~ga.ok THEN Raised("OutOfBounds", v2)
        ELSE IF test THEN Returned("accepted", <<>>, f.vm)
        ELSE Returned("accepted", <<>>, [f.vm EXCEPT !.reg = Reg_set(@, d.R.loc, f.c).reg])

r_rm(vm, _8bit, operation, test) ==
    LET sz == IF _8bit THEN 1 ELSE vm.operand_size
    IN  r_rm_decoded(vm, sz, operation, test, process_ModRM(vm, sz, sz))

\* NEGNOT.operation_not(a, off)
operation_not(a, off) == Minus(MAXVALS(off), a)

\* NEGNOT.operation_neg(a, off)
operation_neg(a, off) == Plus(operation_not(a, off), IntOne)

\* NEGNOT.rm: operation "NEG" is the source's 0, "NOT" its 1.  The result is
\* written with vm.reg.set(loc, b) whatever the kind of the operand.
NEGNOT_result(vm, neg, sz, loc, a, b) ==
    LET v2 == IF neg THEN eflags_set(vm, "CF", Bool(a # IntZero)) ELSE vm
        sign_b == b[sz * 8 - 1]
        v3 == IF neg THEN eflags_set(eflags_set(v2, "SF", sign_b), "ZF", Bool(b = IntZero)) ELSE v2
        bb == to_bytes(b, sz)
        v4 == IF neg THEN eflags_set(v3, "PF", parity(bb[1], sz)) ELSE v3
        st == Reg_set(v4.reg, loc, bb)
    IN  IF ~st.ok THEN Raised("OutOfBounds", v4)
        ELSE Returned("accepted", <<>>, [v4 EXCEPT !.reg = st.reg])

NEGNOT_decoded(vm, sz, operation, d) ==
    LET old_eip == vm.eip
        v1 == [vm EXCEPT !.eip = d.eip]
        ga == Operand_get(v1, d.RM.type, d.RM.loc, sz)
        a == to_int(ga.val, FALSE)
        neg == (operation = "NEG")
    IN  IF ~d.ok THEN Raised("OutOfBounds", v1)
        ELSE IF operation = "NEG" /\ d.R.loc # 3
             THEN Returned("rejected", <<>>, [v1 EXCEPT !.eip = old_eip])
        ELSE IF operation = "NOT" /\ d.R.loc # 2
             THEN Returned("rejected", <<>>, [v1 EXCEPT !.eip = old_eip])
        ELSE IF operation \notin {"NEG", "NOT"} THEN Raised("ValueError", v1)
        ELSE IF ~ga.ok THEN Raised("OutOfBounds", v1)
        ELSE NEGNOT_result(v1, neg, sz, d.RM.loc, a,
                 and_(IF neg THEN operation_neg(a, sz) ELSE operation_not(a, sz), MAXVALS(sz)))

NEGNOT_rm(vm, _8bit, operation) ==
    LET sz == IF _8bit THEN 1 ELSE vm.operand_size
    IN  NEGNOT_decoded(vm, sz, operation, process_ModRM(vm, sz, sz))

\* the while loop of SHIFT.shift: n single-bit steps, CF set at each; [dst, cf]
RECURSIVE ShiftLoop(_, _, _, _, _)
ShiftLoop(operation, dst, sz, tmp_cnt, cf) ==
    IF tmp_cnt = 0 THEN [dst |-> dst, cf |-> cf]
    ELSE IF operation = "SHL"
         THEN ShiftLoop(operation, Shl1(dst), sz, tmp_cnt - 1, dst[sz * 8])
    ELSE ShiftLoop(operation, Shr1(dst), sz, tmp_cnt - 1, dst[0])

\* SHIFT.shift, from the flags on: l is what the loop left
shift_result(vm, operation, sz, d, tmp_cnt, tmp_dst, l) ==
    LET v3 == eflags_set(vm, "CF", l.cf)
        v4 == IF tmp_cnt # 1 THEN v3
              ELSE IF operation = "SHL"
                   THEN eflags_set(v3, "OF", (l.dst[sz * 8] + v3.eflags["CF"]) % 2)
              ELSE IF operation = "SAR" THEN eflags_set(v3, "OF", 0)
              ELSE eflags_set(v3, "OF", tmp_dst[sz * 8])
        v5 == eflags_set(v4, "SF", l.dst[sz * 8 - 1])
        dm == and_(l.dst, MAXVALS(sz))
        v6 == eflags_set(v5, "ZF", Bool(dm = IntZero))
        db == to_bytes(dm, sz)
        v7 == eflags_set(v6, "PF", parity(db[1], sz))
        st == Operand_set(v7, d.RM.type, d.RM.loc, db)
    IN  IF ~st.ok THEN Raised("OutOfBounds", v7)
        ELSE Returned("accepted", <<>>, st.vm)

\* SHIFT.shift, from the loop on
shift_counted(vm, operation, sz, d, tmp_cnt, tmp_dst) ==
    shift_result(vm, operation, sz, d, tmp_cnt, tmp_dst,
                 ShiftLoop(operation, tmp_dst, sz, tmp_cnt, vm.eflags["CF"]))

\* SHIFT.shift, after process_ModRM
shift_decoded(vm, operation, cnt, sz, d) ==
    LET old_eip == vm.eip
        v1 == [vm EXCEPT !.eip = d.eip]
        imm == Memory_get(v1.memory, v1.eip, 1)
        count == CASE cnt = "C_ONE" -> 1
                   [] cnt = "C_CL" -> Reg_get(v1.reg, 1, 1).val[1]
                   [] cnt = "C_imm8" -> imm.val[1]
        v2 == IF cnt = "C_imm8" THEN [v1 EXCEPT !.eip = @ + 1] ELSE v1
        gd == Operand_get(v2, d.RM.type, d.RM.loc, sz)
    IN  IF ~d.ok THEN Raised("OutOfBounds", v1)
        ELSE IF operation = "SHL" /\ d.R.loc # 4
             THEN Returned("rejected", <<>>, [v1 EXCEPT !.eip = old_eip])
        ELSE IF operation = "SHR" /\ d.R.loc # 5
             THEN Returned("rejected", <<>>, [v1 EXCEPT !.eip = old_eip])
        ELSE IF operation = "SAR" /\ d.R.loc # 7
             THEN Returned("rejected", <<>>, [v1 EXCEPT !.eip = old_eip])
        ELSE IF cnt \notin {"C_ONE", "C_CL", "C_imm8"} THEN Raised("RuntimeError", v1)
        ELSE IF cnt = "C_imm8" /\ ~imm.ok THEN Raised("OutOfBounds", v1)
        ELSE IF ~gd.ok THEN Raised("OutOfBounds", v2)
        ELSE IF count = 0 THEN Returned("accepted", <<>>, v2)
        ELSE shift_counted(v2, operation, sz, d, count % 32, to_int(gd.val, operation = "SAR"))

\* SHIFT.shift
shift(vm, operation, cnt, _8bit) ==
    LET sz == IF _8bit THEN 1 ELSE vm.operand_size
    IN  shift_decoded(vm, operation, cnt, sz,
                      process_ModRM(vm, vm.operand_size, vm.operand_size))

-----------------------------------------------------------------------------
(* Opcode tables (the __init__ of BITWISE, NEGNOT and SHIFT) *)

NoHandler ==
    [fam |-> "none", _8bit |-> FALSE, _8bit_imm |-> FALSE, operation |-> "none",
     test |-> FALSE, cnt |-> "none"]

P_r_imm(_8bit, operation, test) ==
    [NoHandler EXCEPT !.fam = "r_imm", !._8bit = _8bit, !.operation = operation, !.test = test]
P_rm_imm(_8bit, _8bit_imm, operation, test) ==
    [NoHandler EXCEPT !.fam = "rm_imm", !._8bit = _8bit, !._8bit_imm = _8bit_imm,
                      !.operation = operation, !.test = test]
P_rm_r(_8bit, operation, test) ==
    [NoHandler EXCEPT !.fam = "rm_r", !._8bit = _8bit, !.operation = operation, !.test = test]
P_r_rm(_8bit, operation, test) ==
    [NoHandler EXCEPT !.fam = "r_rm", !._8bit = _8bit, !.operation = operation, !.test = test]
P_rm(_8bit, operation) ==
    [NoHandler EXCEPT !.fam = "rm", !._8bit = _8bit, !.operation = operation]
P_shift(operation, cnt, _8bit) ==
    [NoHandler EXCEPT !.fam = "shift", !._8bit = _8bit, !.operation = operation, !.cnt = cnt]

\* BITWISE.opcodes (a single handler is a list of one)
BITWISE_opcodes(op) ==
    CASE op = 36 -> <<P_r_imm(TRUE, "and_", FALSE)>>                       \* 0x24
      [] op = 37 -> <<P_r_imm(FALSE, "and_", FALSE)>>                      \* 0x25
      [] op = 128 -> <<P_rm_imm(TRUE, TRUE, "and_", FALSE),                \* 0x80
                       P_rm_imm(TRUE, TRUE, "or_", FALSE),
                       P_rm_imm(TRUE, TRUE, "xor", FALSE)>>
      [] op = 129 -> <<P_rm_imm(FALSE, FALSE, "and_", FALSE),              \* 0x81
                       P_rm_imm(FALSE, FALSE, "or_", FALSE),
                       P_rm_imm(FALSE, FALSE, "xor", FALSE)>>
      [] op = 131 -> <<P_rm_imm(FALSE, TRUE, "and_", FALSE),               \* 0x83
                       P_rm_imm(FALSE, TRUE, "or_", FALSE),
                       P_rm_imm(FALSE, TRUE, "xor", FALSE)>>
      [] op = 32 -> <<P_rm_r(TRUE, "and_", FALSE)>>                        \* 0x20
      [] op = 33 -> <<P_rm_r(FALSE, "and_", FALSE)>>                       \* 0x21
      [] op = 34 -> <<P_r_rm(TRUE, "and_", FALSE)>>                        \* 0x22
      [] op = 35 -> <<P_r_rm(FALSE, "and_", FALSE)>>                       \* 0x23
      [] op = 12 -> <<P_r_imm(TRUE, "or_", FALSE)>>                        \* 0x0C
      [] op = 13 -> <<P_r_imm(FALSE, "or_", FALSE)>>                       \* 0x0D
      [] op = 8 -> <<P_rm_r(TRUE, "or_", FALSE)>>                          \* 0x08
      [] op = 9 -> <<P_rm_r(FALSE, "or_", FALSE)>>                         \* 0x09
      [] op = 10 -> <<P_r_rm(TRUE, "or_", FALSE)>>                         \* 0x0A
      [] op = 11 -> <<P_r_rm(FALSE, "or_", FALSE)>>                        \* 0x0B
      [] op = 52 -> <<P_r_imm(TRUE, "xor", FALSE)>>                        \* 0x34
      [] op = 53 -> <<P_r_imm(FALSE, "xor", FALSE)>>                       \* 0x35
      [] op = 48 -> <<P_rm_r(TRUE, "xor", FALSE)>>                         \* 0x30
      [] op = 49 -> <<P_rm_r(FALSE, "xor", FALSE)>>                        \* 0x31
      [] op = 50 -> <<P_r_rm(TRUE, "xor", FALSE)>>                         \* 0x32
      [] op = 51 -> <<P_r_rm(FALSE, "xor", FALSE)>>                        \* 0x33
      [] op = 168 -> <<P_r_imm(TRUE, "and_", TRUE)>>                       \* 0xA8
      [] op = 169 -> <<P_r_imm(FALSE, "and_", TRUE)>>                      \* 0xA9
      [] op = 246 -> <<P_rm_imm(TRUE, TRUE, "and_", TRUE)>>                \* 0xF6
      [] op = 247 -> <<P_rm_imm(FALSE, FALSE, "and_", TRUE)>>              \* 0xF7
      [] op = 132 -> <<P_rm_r(TRUE, "and_", TRUE)>>                        \* 0x84
      [] op = 133 -> <<P_rm_r(FALSE, "and_", TRUE)>>                       \* 0x85
      [] OTHER -> <<>>

\* NEGNOT.opcodes
NEGNOT_opcodes(op) ==
    CASE op = 246 -> <<P_rm(TRUE, "NEG"), P_rm(TRUE, "NOT")>>              \* 0xF6
      [] op = 247 -> <<P_rm(FALSE, "NEG"), P_rm(FALSE, "NOT")>>            \* 0xF7
      [] OTHER -> <<>>

\* SHIFT.opcodes
SHIFT_opcodes(op) ==
    CASE op = 208 -> <<P_shift("SHL", "C_ONE", TRUE), P_shift("SHR", "C_ONE", TRUE),
                       P_shift("SAR", "C_ONE", TRUE)>>                     \* 0xD0
      [] op = 210 -> <<P_shift("SHL", "C_CL", TRUE), P_shift("SHR", "C_CL", TRUE),
                       P_shift("SAR", "C_CL", TRUE)>>                      \* 0xD2
      [] op = 192 -> <<P_shift("SHL", "C_imm8", TRUE), P_shift("SHR", "C_imm8", TRUE),
                       P_shift("SAR", "C_imm8", TRUE)>>                    \* 0xC0
      [] op = 209 -> <<P_shift("SHL", "C_ONE", FALSE), P_shift("SHR", "C_ONE", FALSE),
                       P_shift("SAR", "C_ONE", FALSE)>>                    \* 0xD1
      [] op = 211 -> <<P_shift("SHL", "C_CL", FALSE), P_shift("SAR", "C_CL", FALSE),
                       P_shift("SHR", "C_CL", FALSE)>>                     \* 0xD3
      [] op = 193 -> <<P_shift("SHL", "C_imm8", FALSE), P_shift("SHR", "C_imm8", FALSE),
                       P_shift("SAR", "C_imm8", FALSE)>>                   \* 0xC1
      [] OTHER -> <<>>

\* the dispatch table: every family's handlers at an opcode, in registration order
dispatch(op) == BITWISE_opcodes(op) \o NEGNOT_opcodes(op) \o SHIFT_opcodes(op)

-----------------------------------------------------------------------------
(* The state as one record, and the history of operations *)

VM ==
    [memory |-> memory, reg |-> reg, eflags |-> eflags, eip |-> eip,
     operand_size |-> operand_size, code_segment_end |-> code_segment_end]

SetVM(vm) ==
    /\ memory' = vm.memory
    /\ reg' = vm.reg
    /\ eflags' = vm.eflags
    /\ eip' = vm.eip
    /\ operand_size' = vm.operand_size
    /\ code_segment_end' = vm.code_segment_end

\* one operation: what was called, with what, how it ended, the state before
\* and after it, and the state at the start of the instruction it belongs to
Entry(op, opcode, h, offset, size, value, out, ret, pre, post, start) ==
    [op |-> op, opcode |-> opcode, h |-> h, offset |-> offset, size |-> size,
     value |-> value, out |-> out, ret |-> ret, pre |-> pre, post |-> post, start |-> start]

Last == hist[Len(hist)]

Count(ops) == Cardinality({i \in 1..Len(hist) : hist[i].op \in ops})

-----------------------------------------------------------------------------
(* Memory operations (SpecMem) *)

MemOffsets == {0 - 1, 0, 1, MemSize - 3, MemSize - 2, MemSize - 1, MemSize, MemSize + 1}
MemSizes == {0, 1, 2}
MemValues == {<<>>, <<170>>, <<85, 204>>}
FillValues == {238, 256}

MemGet(offset, size) ==
    /\ Count({"get", "set", "fill"}) < MaxMemOps
    /\ LET r == Memory_get(memory, offset, size)
       IN  hist' = Append(hist, Entry("get", 0, NoHandler, offset, size, <<>>,
                                      IF r.ok THEN "ok" ELSE "OutOfBounds", r.val, VM, VM, VM))
    /\ UNCHANGED <<memory, reg, eflags, eip, operand_size, code_segment_end, pc, cand>>

MemSet(offset, value) ==
    /\ Count({"get", "set", "fill"}) < MaxMemOps
    /\ LET r == Memory_set(memory, offset, value)
       IN  /\ memory' = r.mem
           /\ hist' = Append(hist, Entry("set", 0, NoHandler, offset, Len(value), value,
                                         IF r.ok THEN "ok" ELSE "OutOfBounds", <<>>,
                                         VM, [VM EXCEPT !.memory = r.mem], VM))
    /\ UNCHANGED <<reg, eflags, eip, operand_size, code_segment_end, pc, cand>>

MemFill(offset, value) ==
    /\ Count({"get", "set", "fill"}) < MaxMemOps
    /\ LET r == Memory_fill(memory, offset, value)
       IN  /\ memory' = r.mem
           /\ hist' = Append(hist, Entry("fill", 0, NoHandler, offset, 0, <<value>>,
                                         IF r.ok THEN "ok" ELSE "OutOfBounds", <<>>,
                                         VM, [VM EXCEPT !.memory = r.mem], VM))
    /\ UNCHANGED <<reg, eflags, eip, operand_size, code_segment_end, pc, cand>>

InitMem ==
    /\ memory = Memory_init(MemSize)
    /\ reg = CPU32_init(MemSize).reg
    /\ eflags = CPU32_init(MemSize).eflags
    /\ eip = 0
    /\ operand_size = 4
    /\ code_segment_end = 0
    /\ pc = "fetch"
    /\ cand = <<>>
    /\ hist = <<>>

NextMem ==
    \/ \E offset \in MemOffsets, size \in MemSizes : MemGet(offset, size)
    \/ \E offset \in MemOffsets, value \in MemValues : MemSet(offset, value)
    \/ \E offset \in MemOffsets, value \in FillValues : MemFill(offset, value)

SpecMem == InitMem /\ [][NextMem]_vars

-----------------------------------------------------------------------------
(* The fetch loop (after the design document) and the handlers as actions *)

\* the state at the start of the instruction being executed
InsnStart ==
    LET fetches == {i \in 1..Len(hist) : hist[i].op = "fetch"}
    IN  hist[CHOOSE i \in fetches : \A j \in fetches : j <= i].pre

\* read the opcode at eip, advance eip, look up the candidates
Fetch ==
    /\ pc = "fetch"
    /\ LET g == Memory_get(memory, eip, 1)
           op == g.val[1]
           after == [VM EXCEPT !.eip = @ + 1]
       IN  IF ~g.ok
           THEN /\ hist' = Append(hist, Entry("fetch", 0, NoHandler, eip, 1, <<>>,
                                              "OutOfBounds", <<>>, VM, VM, VM))
                /\ pc' = "error"
                /\ cand' = <<>>
                /\ UNCHANGED <<memory, reg, eflags, eip, operand_size, code_segment_end>>
           ELSE /\ hist' = Append(hist, Entry("fetch", op, NoHandler, eip, 1, <<>>,
                                              IF dispatch(op) = <<>> THEN "InvalidOpcode" ELSE "ok",
                                              g.val, VM, after, VM))
                /\ pc' = IF dispatch(op) = <<>> THEN "error" ELSE "dispatch"
                /\ cand' = dispatch(op)
                /\ eip' = eip + 1
                /\ UNCHANGED <<memory, reg, eflags, operand_size, code_segment_end>>

\* a candidate handler has run with result r: accepted ends the instruction,
\* rejected passes to the next candidate (InvalidOpcode when none is left),
\* an error surfaces to the caller
Handled(r) ==
    LET e == Entry("handler", Last.opcode, Head(cand), 0, 0, <<>>, r.out, <<>>,
                   VM, r.vm, InsnStart)
        none == r.out = "rejected" /\ Tail(cand) = <<>>
    IN  /\ SetVM(r.vm)
        /\ hist' = IF none
                   THEN hist \o <<e, Entry("step", Last.opcode, NoHandler, 0, 0, <<>>,
                                           "InvalidOpcode", <<>>, r.vm, r.vm, InsnStart)>>
                   ELSE Append(hist, e)
        /\ pc' = IF r.out = "accepted" THEN "fetch"
                 ELSE IF r.out = "rejected" /\ ~none THEN "dispatch"
                 ELSE "error"
        /\ cand' = IF r.out = "rejected" THEN Tail(cand) ELSE <<>>

Do_r_imm ==
    /\ pc = "dispatch" /\ Head(cand).fam = "r_imm"
    /\ Handled(r_imm(VM, Head(cand)._8bit, Head(cand).operation, Head(cand).test))

Do_rm_imm ==
    /\ pc = "dispatch" /\ Head(cand).fam = "rm_imm"
    /\ Handled(rm_imm(VM, Head(cand)._8bit, Head(cand)._8bit_imm, Head(cand).operation,
                      Head(cand).test))

Do_rm_r ==
    /\ pc = "dispatch" /\ Head(cand).fam = "rm_r"
    /\ Handled(rm_r(VM, Head(cand)._8bit, Head(cand).operation, Head(cand).test))

Do_r_rm ==
    /\ pc = "dispatch" /\ Head(cand).fam = "r_rm"
    /\ Handled(r_rm(VM, Head(cand)._8bit, Head(cand).operation, Head(cand).test))

Do_rm ==
    /\ pc = "dispatch" /\ Head(cand).fam = "rm"
    /\ Handled(NEGNOT_rm(VM, Head(cand)._8bit, Head(cand).operation))

Do_shift ==
    /\ pc = "dispatch" /\ Head(cand).fam = "shift"
    /\ Handled(shift(VM, Head(cand).operation, Head(cand).cnt, Head(cand)._8bit))

Step == Fetch \/ Do_r_imm \/ Do_rm_imm \/ Do_rm_r \/ Do_r_rm \/ Do_rm \/ Do_shift

-----------------------------------------------------------------------------
(* Stack operations as actions, between instructions *)

StackPush(value) ==
    /\ pc = "fetch"
    /\ Count({"push", "pop"}) < MaxStackOps
    /\ Len(value) = operand_size
    /\ LET r == stack_push(VM, value)
       IN  /\ SetVM(r.vm)
           /\ hist' = Append(hist, Entry("push", 0, NoHandler, 0, Len(value), value, r.out,
                                         r.ret, VM, r.vm, VM))
    /\ UNCHANGED <<pc, cand>>

StackPop ==
    /\ pc = "fetch"
    /\ Count({"push", "pop"}) < MaxStackOps
    /\ LET r == stack_pop(VM, operand_size)
       IN  /\ SetVM(r.vm)
           /\ hist' = Append(hist, Entry("pop", 0, NoHandler, 0, operand_size, <<>>, r.out,
                                         r.ret, VM, r.vm, VM))
    /\ UNCHANGED <<pc, cand>>

-----------------------------------------------------------------------------
(* Initial states *)

OperandSizes == {4, 2}

\* the image written to memory with Memory.set: [ok, mem]; an image that
\* Memory.set refuses is not loaded and there is nothing to run
Load(mem, offset, image) == Memory_set(mem, offset, image)

\* where the data operand of the images lies (the four bytes below the reset
\* stack pointer), and what it holds
DataAddr == MemSize - 5
DataBytes == <<1, 0, 128, 192>>
Disp == addr_bytes(DataAddr, 4)

\* an image: the code, zeros, and the data operand at DataAddr; code that
\* reaches beyond DataAddr is an image without a data operand
Image(code, data) ==
    IF Len(code) > DataAddr THEN code
    ELSE code \o [k \in 1..(DataAddr - Len(code)) |-> 0] \o data

\* code loaded at address 0 (opcodes and ModR/M bytes in decimal)
Programs ==
    {   \* r_imm: 25 AND EAX,imm  A8 TEST AL,imm  0C OR AL,imm  35 XOR EAX,imm  24 AND AL,imm
        \*        A9 TEST EAX,imm  0D OR EAX,imm
        <<37, 15, 0, 0, 0>>, <<168, 128>>, <<12, 1>>, <<53, 255, 255, 255, 255>>,
        <<36, 0>>, <<169, 1, 0, 0, 128>>, <<13, 0, 0, 0, 0>>,
        \* rm_imm: 83 /4 /1 /2, 80 /6, 81 /4, 83 /4 on memory, F6 /0, F7 /1
        <<131, 224, 15>>, <<131, 200, 255>>, <<131, 208, 1>>, <<128, 240, 127>>,
        <<129, 224, 15, 0, 0, 0>>, <<131, 37>> \o Disp \o <<15>>,
        <<246, 192, 1>>, <<247, 200>>,
        \* rm_r: 31 XOR EBX,EBX  21 AND EAX,EBX  09 OR [EBX],EAX  31 XOR [disp],EAX
        \*       85 TEST EBX,EAX  84 TEST AL,AH  20 AND [disp],AL  08 OR AH,AL
        <<49, 219>>, <<33, 216>>, <<9, 3>>, <<49, 5>> \o Disp, <<133, 195>>, <<132, 224>>,
        <<32, 5>> \o Disp, <<8, 196>>,
        \* r_rm: 23 AND EAX,[disp]  0B OR EAX,EBX  32 XOR AL,AH  33 XOR EAX,[EBX]
        \*       33 XOR ESP,EBX  23 AND EAX,[EBX+1]  0B OR EAX,[SIB: disp]
        <<35, 5>> \o Disp, <<11, 195>>, <<50, 196>>, <<51, 3>>, <<51, 227>>, <<35, 67, 1>>,
        <<11, 4, 37>> \o Disp,
        \* NEGNOT: F7 /3 EAX  F6 /2 AL  F7 /2 EAX twice  F6 /3 AL  F7 /3 EBX  F7 /3 [disp]
        \*         F6 /2 [disp]  F7 /2 [5]  F6 /2 AH  F7 /2 [EBX]
        <<247, 216>>, <<246, 208>>, <<247, 208, 247, 208>>, <<246, 216>>, <<247, 219>>,
        <<247, 29>> \o Disp, <<246, 21>> \o Disp, <<247, 21, 5, 0, 0, 0>>, <<246, 212>>,
        <<247, 19>>,
        \*         F7 /3 [1]  F6 /3 [1]  F7 /2 [1] twice
        <<247, 29, 1, 0, 0, 0>>, <<246, 29, 1, 0, 0, 0>>,
        <<247, 21, 1, 0, 0, 0, 247, 21, 1, 0, 0, 0>>,
        \*         F6 /3 AH
        <<246, 220>>,
        \* SHIFT by one: D1 /4 /5 /7 /6 EAX, D0 /4 /5 /7 AL, D1 /4 [disp]
        <<209, 224>>, <<209, 232>>, <<209, 248>>, <<209, 240>>,
        <<208, 224>>, <<208, 232>>, <<208, 248>>, <<209, 37>> \o Disp,
        \* SHIFT by CL: D3 /4 /5 /7 /0 EAX, D2 /4 /7 AL
        <<211, 224>>, <<211, 232>>, <<211, 248>>, <<211, 192>>, <<210, 224>>, <<210, 248>>,
        \* SHIFT by imm8: C1 /4 EAX by 0, 2, 31, 32, 33; C1 /5 by 4; C1 /7 by 31; C0 /4 /7 AL
        <<193, 224, 0>>, <<193, 224, 2>>, <<193, 224, 31>>, <<193, 224, 32>>,
        <<193, 224, 33>>, <<193, 232, 4>>, <<193, 248, 31>>, <<192, 224, 9>>, <<192, 248, 7>>
    }

\* code loaded so that it ends at the last byte but one of memory: the
\* immediate lies beyond it, or the ModR/M byte is the last byte of memory
TailPrograms == {<<129, 224>>, <<37>>, <<193, 224>>, <<49>>, <<247>>, <<129>>, <<209>>}

\* register and flag values at the start
EaxVals == {<<0, 0, 0, 0>>, <<1, 0, 0, 0>>, <<0, 0, 0, 64>>, <<255, 255, 255, 255>>,
            <<170, 128, 0, 128>>}
EbxVals == {Disp, <<120, 86, 52, 18>>, <<255, 255, 255, 255>>}
EcxVals == {<<0, 0, 0, 0>>, <<1, 0, 0, 0>>, <<32, 0, 0, 0>>, <<34, 0, 0, 0>>}
FlagVals == {[f \in Flags |-> 0], [f \in Flags |-> 1]}

\* a CPU state with its fetch loop about to fetch
Start(vm) ==
    /\ memory = vm.memory
    /\ reg = vm.reg
    /\ eflags = vm.eflags
    /\ eip = vm.eip
    /\ operand_size = vm.operand_size
    /\ code_segment_end = vm.code_segment_end
    /\ pc = "fetch"
    /\ cand = <<>>
    /\ hist = <<>>

\* the engine alone: an image is loaded, registers and flags hold values that
\* earlier instructions left, and instructions are executed until an error
Init ==
    \E a \in EaxVals, b \in EbxVals, c \in EcxVals, f \in FlagVals, os \in OperandSizes :
        LET cpu == [CPU32_init(MemSize) EXCEPT
                        !.reg[eax] = a, !.reg[ebx] = b, !.reg[ecx] = c,
                        !.eflags = f, !.operand_size = os]
        IN  \/ \E code \in Programs :
                LET ld == Load(cpu.memory, 0, Image(code, DataBytes))
                IN  ld.ok /\ Start([cpu EXCEPT !.memory = ld.mem])
            \/ \E code \in TailPrograms :
                LET ld == Load(cpu.memory, MemSize - 1 - Len(code), code)
                IN  ld.ok /\ Start([cpu EXCEPT !.memory = ld.mem,
                                               !.eip = MemSize - 1 - Len(code)])

Next == Step

Spec == Init /\ [][Next]_vars

\* the stack: from the reset state with an image loaded, instructions and
\* stack operations
StackPrograms ==
    {   \* XOR ESP,EBP; OR ESP,[disp]: ESP becomes the data operand
        Image(<<51, 229, 11, 37>> \o Disp, addr_bytes(MemSize, 4)),
        Image(<<51, 229, 11, 37>> \o Disp, addr_bytes(MemSize + 3, 4)),
        Image(<<12, 1>>, DataBytes), Image(<<131, 224, 15>>, DataBytes),
        Image(<<49, 219>>, DataBytes), Image(<<247, 216>>, DataBytes),
        Image(<<209, 224>>, DataBytes)
    }

PushVals == {<<17, 34, 51, 68>>, <<85, 102, 119, 136>>, <<17, 34>>, <<85, 102>>}

InitStack ==
    \E image \in StackPrograms, os \in OperandSizes :
        LET ld == Load(CPU32_init(MemSize).memory, 0, image)
        IN  ld.ok /\ Start([CPU32_init(MemSize) EXCEPT !.memory = ld.mem, !.operand_size = os])

NextStack == Step \/ (\E value \in PushVals : StackPush(value)) \/ StackPop

SpecStack == InitStack /\ [][NextStack]_vars

\* the stack alone: from the reset state, with the code segment ending at a
\* fixed address, stack_push and stack_pop are called and nothing else runs
ResetCodeEnds == {0, 5}

InitReset ==
    \E os \in OperandSizes, cse \in ResetCodeEnds :
        Start([CPU32_init(MemSize) EXCEPT !.operand_size = os, !.code_segment_end = cse])

ResetPush(value) ==
    /\ Count({"push", "pop"}) < MaxResetOps
    /\ Len(value) = operand_size
    /\ LET r == stack_push(VM, value)
       IN  /\ SetVM(r.vm)
           /\ hist' = Append(hist, Entry("push", 0, NoHandler, 0, Len(value), value, r.out,
                                         r.ret, VM, r.vm, VM))
    /\ UNCHANGED <<pc, cand>>

ResetPop ==
    /\ Count({"push", "pop"}) < MaxResetOps
    /\ LET r == stack_pop(VM, operand_size)
       IN  /\ SetVM(r.vm)
           /\ hist' = Append(hist, Entry("pop", 0, NoHandler, 0, operand_size, <<>>, r.out,
                                         r.ret, VM, r.vm, VM))
    /\ UNCHANGED <<pc, cand>>

NextReset == (\E value \in PushVals : ResetPush(value)) \/ ResetPop

SpecReset == InitReset /\ [][NextReset]_vars

-----------------------------------------------------------------------------
(* Properties.  They are stated over the history: every call is an entry
   with the state before it (pre), after it (post) and at the start of its
   instruction (start). *)

Calls(ops) == {i \in 1..Len(hist) : hist[i].op \in ops}

\* the ModR/M byte a handler finds at eip, and its fields
ModRM(vm) == vm.memory[vm.eip + 1]
ModField(b) == b \div 64
RegField(b) == (b \div 8) % 8
RMField(b) == b % 8

\* a ModR/M byte that is all of the addressing: a register, or [register]
NoMoreBytes(b) == ModField(b) = 3 \/ (ModField(b) = 0 /\ RMField(b) \notin {4, 5})

\* the opcode extension a handler expects in the reg field (design document,
\* 4.5: AND /4, OR /1, XOR /6, TEST /0, NOT /2, NEG /3, SHL /4, SHR /5, SAR /7)
Extension(h) ==
    CASE h.fam = "rm_imm" /\ h.operation = "and_" /\ ~h.test -> 4
      [] h.fam = "rm_imm" /\ h.operation = "and_" /\ h.test -> 0
      [] h.fam = "rm_imm" /\ h.operation = "or_" -> 1
      [] h.fam = "rm_imm" /\ h.operation = "xor" -> 6
      [] h.fam = "rm" /\ h.operation = "NOT" -> 2
      [] h.fam = "rm" /\ h.operation = "NEG" -> 3
      [] h.fam = "shift" /\ h.operation = "SHL" -> 4
      [] h.fam = "shift" /\ h.operation = "SHR" -> 5
      [] h.fam = "shift" /\ h.operation = "SAR" -> 7
      [] OTHER -> 8

\* the operand size of a handler call, and the size it hands to the decoder
Size(e) == IF e.h._8bit THEN 1 ELSE e.pre.operand_size
DecoderSize(e) == IF e.h.fam = "shift" THEN e.pre.operand_size ELSE Size(e)

\* what the decoder returns to the handler of entry e
DecodedBy(e) == process_ModRM(e.pre, DecoderSize(e), DecoderSize(e))

\* the bytes of the r/m operand of entry e, and of its reg operand, in state vm
RMValue(e, vm) == Operand_get(vm, DecodedBy(e).RM.type, DecodedBy(e).RM.loc, Size(e)).val
RValue(e, vm) == Reg_get(vm.reg, DecodedBy(e).R.loc, Size(e)).val

\* arithmetic on little-endian byte strings
ByteOp(operation, x, y) ==
    LET f(k) == CASE operation = "and_" -> Bit(x, k) * Bit(y, k)
                  [] operation = "or_" -> IF Bit(x, k) + Bit(y, k) > 0 THEN 1 ELSE 0
                  [] operation = "xor" -> (Bit(x, k) + Bit(y, k)) % 2
    IN  f(0) + 2 * f(1) + 4 * f(2) + 8 * f(3) + 16 * f(4) + 32 * f(5) + 64 * f(6) + 128 * f(7)

BytesOp(operation, a, b) == [k \in 1..Len(a) |-> ByteOp(operation, a[k], b[k])]

SignExtended(data, n) ==
    [k \in 1..n |-> IF k <= Len(data) THEN data[k]
                    ELSE IF data[Len(data)] >= 128 THEN 255 ELSE 0]

Complement(data) == [k \in 1..Len(data) |-> 255 - data[k]]

RECURSIVE Increment(_)
Increment(data) ==
    IF data = <<>> THEN <<>>
    ELSE IF data[1] < 255 THEN <<data[1] + 1>> \o Tail(data)
    ELSE <<0>> \o Increment(Tail(data))

IsZero(data) == \A k \in 1..Len(data) : data[k] = 0
MSB(data) == data[Len(data)] \div 128
EvenParity(byte) ==
    IF (Bit(byte, 0) + Bit(byte, 1) + Bit(byte, 2) + Bit(byte, 3)
        + Bit(byte, 4) + Bit(byte, 5) + Bit(byte, 6) + Bit(byte, 7)) % 2 = 0
    THEN 1 ELSE 0

\* the stack pointer of a state
ESP(vm) == to_addr(vm.reg[esp])

\* C1 (handler rollback): a handler that peeks at ModR/M (rm_imm, NEGNOT.rm,
\* shift), called at a ModR/M byte that lies in memory, with its addressing
\* bytes, and whose reg field is not the handler's extension, returns rejected
\* and leaves EIP, registers, flags and memory as they were before the call.
C1_Rollback ==
    \A i \in Calls({"handler"}) :
        (/\ hist[i].h.fam \in {"rm_imm", "rm", "shift"}
         /\ hist[i].pre.eip \in 0..(Len(hist[i].pre.memory) - 1)
         /\ (NoMoreBytes(ModRM(hist[i].pre)) \/ DecodedBy(hist[i]).ok)
         /\ RegField(ModRM(hist[i].pre)) # Extension(hist[i].h))
        => /\ hist[i].out = "rejected"
           /\ hist[i].post = hist[i].pre

\* the part of C1 that the handlers keep: a rejected handler has changed nothing
RejectedRestores ==
    \A i \in Calls({"handler"}) : hist[i].out = "rejected" => hist[i].post = hist[i].pre

\* the operands a and b of a BITWISE handler call, and its destination after it
BitwiseA(e) ==
    IF e.h.fam = "r_imm" THEN Reg_get(e.pre.reg, 0, Size(e)).val ELSE RMValue(e, e.pre)
BitwiseB(e) ==
    CASE e.h.fam = "r_imm" -> SubSeq(e.pre.memory, e.pre.eip + 1, e.pre.eip + Size(e))
      [] e.h.fam = "rm_imm" ->
            SignExtended(SubSeq(e.pre.memory, DecodedBy(e).eip + 1,
                                DecodedBy(e).eip + (IF e.h._8bit_imm THEN 1
                                                    ELSE e.pre.operand_size)),
                         Size(e))
      [] OTHER -> RValue(e, e.pre)
BitwiseDest(e) ==
    CASE e.h.fam = "r_imm" -> Reg_get(e.post.reg, 0, Size(e)).val
      [] e.h.fam = "r_rm" -> RValue(e, e.post)
      [] OTHER -> RMValue(e, e.post)

\* the flag law of AND, OR, XOR for the calls of the given handlers: unless
\* the handler rejects the encoding or an access is out of bounds, the
\* instruction is accepted, CF = OF = 0, ZF, SF and PF are those of the
\* result, and the destination holds a op b
FlagLaw(fams) ==
    \A i \in Calls({"handler"}) :
        (/\ hist[i].h.fam \in fams
         /\ ~hist[i].h.test
         /\ hist[i].out \notin {"rejected", "OutOfBounds"})
        => /\ hist[i].out = "accepted"
           /\ LET c == BytesOp(hist[i].h.operation, BitwiseA(hist[i]), BitwiseB(hist[i]))
                  fl == hist[i].post.eflags
              IN  /\ fl["CF"] = 0
                  /\ fl["OF"] = 0
                  /\ fl["ZF"] = Bool(IsZero(c))
                  /\ fl["SF"] = MSB(c)
                  /\ fl["PF"] = EvenParity(c[1])
                  /\ BitwiseDest(hist[i]) = c

\* C2 (bitwise flag law): for AND, OR and XOR in each of the four encoding
\* variants (immediate to accumulator, immediate to r/m, register to r/m, r/m
\* to register) the instruction is accepted and leaves CF = 0, OF = 0,
\* ZF = (result = 0), SF = the top bit of the result, PF = the parity of its
\* low byte, and the result a op b, masked to the operand size, in the destination.
C2_FlagLaw == FlagLaw({"r_imm", "rm_imm", "rm_r", "r_rm"})

\* the three variants that do not take an immediate to r/m keep the law
FlagLawWithoutRmImm == FlagLaw({"r_imm", "rm_r", "r_rm"})

\* C3 (stack round trip): k successful pushes followed at once by k pops
\* return the pushed values in reverse order and leave ESP as it was before
\* the first push; k = 1 is push v, pop.
C3_StackRoundTrip ==
    \A i \in Calls({"push"}), k \in 1..MaxStackOps :
        (/\ i + 2 * k - 1 <= Len(hist)
         /\ \A j \in 0..(k - 1) : hist[i + j].op = "push" /\ hist[i + j].out = "ok"
         /\ \A j \in 0..(k - 1) : hist[i + k + j].op = "pop")
        => /\ \A j \in 0..(k - 1) :
                /\ hist[i + k + j].out = "ok"
                /\ hist[i + k + j].ret = hist[i + k - 1 - j].value
           /\ hist[i + 2 * k - 1].post.reg[esp] = hist[i].pre.reg[esp]

\* two different values were pushed and popped again
C3_Witness ==
    /\ Len(hist) >= 4
    /\ \E i \in 1..(Len(hist) - 3) :
        /\ hist[i].op = "push" /\ hist[i].out = "ok"
        /\ hist[i + 1].op = "push" /\ hist[i + 1].out = "ok"
        /\ hist[i].value # hist[i + 1].value
        /\ hist[i + 2].op = "pop" /\ hist[i + 2].out = "ok"
        /\ hist[i + 3].op = "pop" /\ hist[i + 3].out = "ok"

\* C4 (stack overflow): stack_push fails with StackOverflow exactly when
\* ESP - operand_size < code_segment_end, and then ESP and memory are
\* unchanged; otherwise, the bytes ESP - operand_size .. ESP - 1 lying in
\* memory, it stores value there and sets ESP to ESP - operand_size.
C4_StackOverflow ==
    \A i \in Calls({"push"}) :
        LET e == hist[i]
            new_esp == ESP(e.pre) - e.pre.operand_size
        IN  /\ (e.out = "StackOverflow") <=> (new_esp < e.pre.code_segment_end)
            /\ e.out = "StackOverflow" => e.post = e.pre
            /\ (/\ new_esp >= e.pre.code_segment_end
                /\ new_esp >= 0
                /\ new_esp + e.pre.operand_size <= Len(e.pre.memory))
               => /\ e.out = "ok"
                  /\ SubSeq(e.post.memory, new_esp + 1, new_esp + e.pre.operand_size) = e.value
                  /\ ESP(e.post) = new_esp

\* C5 (memory bounds): Memory.get and Memory.set of at least one byte fail
\* with OutOfBounds exactly when offset < 0 or offset + size > N, so an access
\* that ends at the last byte of memory succeeds; a failed set leaves memory
\* unchanged.
C5_MemoryBounds ==
    \A i \in Calls({"get", "set"}) :
        LET e == hist[i]
        IN  /\ e.size > 0
               => ((e.out = "OutOfBounds")
                   <=> (e.offset < 0 \/ e.offset + e.size > Len(e.pre.memory)))
            /\ (e.op = "set" /\ e.out = "OutOfBounds") => e.post.memory = e.pre.memory

\* C6 (memory round trip): a set of in-range bytes (at least one) followed by
\* a get of the same range returns those bytes; a set changes no byte outside its range;
\* the memory keeps its length through set and fill.
C6_MemoryRoundTrip ==
    /\ Len(memory) = MemSize
    /\ \A i \in Calls({"set"}) :
        LET e == hist[i]
        IN  /\ \A k \in 1..Len(e.pre.memory) :
                    (k - 1 < e.offset \/ k - 1 >= e.offset + e.size)
                    => e.post.memory[k] = e.pre.memory[k]
            /\ (/\ e.size > 0
                /\ e.offset >= 0
                /\ e.offset + e.size <= Len(e.pre.memory)
                /\ i < Len(hist)
                /\ hist[i + 1].op = "get"
                /\ hist[i + 1].offset = e.offset
                /\ hist[i + 1].size = e.size)
               => /\ hist[i + 1].out = "ok"
                  /\ hist[i + 1].ret = e.value

\* the parts of C6 that hold whatever the bounds check: the frame and the length
MemoryFrame ==
    /\ Len(memory) = MemSize
    /\ \A i \in Calls({"set"}) :
        \A k \in 1..Len(hist[i].pre.memory) :
            (k - 1 < hist[i].offset \/ k - 1 >= hist[i].offset + hist[i].size)
            => hist[i].post.memory[k] = hist[i].pre.memory[k]

\* the count of an accepted shift: 1, CL, or the immediate byte before the new eip
ShiftCount(e) ==
    CASE e.h.cnt = "C_ONE" -> 1
      [] e.h.cnt = "C_CL" -> e.pre.reg[ecx][1]
      [] e.h.cnt = "C_imm8" -> e.pre.memory[e.post.eip]

\* C7 (shift by zero): an accepted SHL, SHR or SAR whose count is 0 after
\* masking with 0x1F (a raw count of 0, 32, 64, ...) leaves every flag unchanged.
C7_ShiftByZero ==
    \A i \in Calls({"handler"}) :
        (/\ hist[i].h.fam = "shift"
         /\ hist[i].out = "accepted"
         /\ ShiftCount(hist[i]) % 32 = 0)
        => hist[i].post.eflags = hist[i].pre.eflags

\* C8 (NOT/NEG identities): an accepted NEG of a leaves (~a + 1) mod 2^(sz*8)
\* in the operand with CF = (a # 0), SF, ZF and PF of the result (so NEG of 0
\* is 0 with CF = 0, ZF = 1); two accepted NOTs of the same operand, one
\* instruction after the other, restore it.
C8_NotNegIdentities ==
    \A i \in Calls({"handler"}) :
        /\ (hist[i].h.fam = "rm" /\ hist[i].h.operation = "NEG" /\ hist[i].out = "accepted")
           => LET a == RMValue(hist[i], hist[i].pre)
                  r == Increment(Complement(a))
                  fl == hist[i].post.eflags
              IN  /\ RMValue(hist[i], hist[i].post) = r
                  /\ fl["CF"] = Bool(~IsZero(a))
                  /\ fl["SF"] = MSB(r)
                  /\ fl["ZF"] = Bool(IsZero(r))
                  /\ fl["PF"] = EvenParity(r[1])
        /\ \A j \in Calls({"handler"}) :
            (/\ i < j
             /\ hist[i].h.fam = "rm" /\ hist[i].h.operation = "NOT" /\ hist[i].out = "accepted"
             /\ hist[j].h = hist[i].h /\ hist[j].out = "accepted"
             /\ DecodedBy(hist[j]).RM = DecodedBy(hist[i]).RM
             /\ \A m \in Calls({"handler"}) : (i < m /\ m < j) => hist[m].out # "accepted")
            => /\ RMValue(hist[j], hist[j].post) = RMValue(hist[i], hist[i].pre)
               /\ RMValue(hist[i], hist[i].post) = Complement(RMValue(hist[i], hist[i].pre))

\* C9 (shift overflow flag): after an accepted shift whose masked count is 1,
\* OF = (top bit of the result) XOR CF for SHL, OF = 0 for SAR and OF = the
\* top bit of the value before the shift for SHR; SHL EAX,1 of 0x40000000
\* leaves EAX = 0x80000000, CF = 0, OF = 1, SF = 1, ZF = 0.
C9_ShiftOverflowFlag ==
    \A i \in Calls({"handler"}) :
        (/\ hist[i].h.fam = "shift"
         /\ hist[i].out = "accepted"
         /\ ShiftCount(hist[i]) % 32 = 1)
        => LET fl == hist[i].post.eflags
               a == RMValue(hist[i], hist[i].pre)
               r == RMValue(hist[i], hist[i].post)
           IN  /\ hist[i].h.operation = "SHL" => fl["OF"] = (MSB(r) + fl["CF"]) % 2
               /\ hist[i].h.operation = "SAR" => fl["OF"] = 0
               /\ hist[i].h.operation = "SHR" => fl["OF"] = MSB(a)
               /\ (/\ hist[i].h.operation = "SHL"
                   /\ Size(hist[i]) = 4
                   /\ a = <<0, 0, 0, 64>>)
                  => /\ r = <<0, 0, 0, 128>>
                     /\ fl["CF"] = 0 /\ fl["OF"] = 1 /\ fl["SF"] = 1 /\ fl["ZF"] = 0

\* C10 (error atomicity): when a BITWISE, NEGNOT or SHIFT handler ends in an
\* error, EIP is what it was at the start of the instruction and no register,
\* flag or memory byte differs from then.
C10_ErrorAtomicity ==
    \A i \in Calls({"handler"}) :
        hist[i].out \notin {"accepted", "rejected"}
        => /\ hist[i].post.eip = hist[i].start.eip
           /\ hist[i].post.reg = hist[i].start.reg
           /\ hist[i].post.eflags = hist[i].start.eflags
           /\ hist[i].post.memory = hist[i].start.memory

\* what an error does leave alone: the memory
ErrorKeepsMemory ==
    \A i \in Calls({"handler"}) :
        hist[i].out \notin {"accepted", "rejected"}
        => hist[i].post.memory = hist[i].start.memory

\* bit i of a little-endian byte string, and the byte string of sz bytes whose bits are f
BitOf(data, i) == Bit(data[(i \div 8) + 1], i % 8)
FromBits(f(_), sz) ==
    [k \in 1..sz |-> f(8 * k - 8) + 2 * f(8 * k - 7) + 4 * f(8 * k - 6) + 8 * f(8 * k - 5)
                     + 16 * f(8 * k - 4) + 32 * f(8 * k - 3) + 64 * f(8 * k - 2)
                     + 128 * f(8 * k - 1)]

\* a shifted by n bits: left, logical right, arithmetic right
Shifted(operation, a, n) ==
    LET w == 8 * Len(a)
        f(i) == CASE operation = "SHL" -> IF i >= n THEN BitOf(a, i - n) ELSE 0
                  [] operation = "SHR" -> IF i + n < w THEN BitOf(a, i + n) ELSE 0
                  [] operation = "SAR" -> IF i + n < w THEN BitOf(a, i + n) ELSE MSB(a)
    IN  FromBits(f, Len(a))

\* the last bit shifted out of a by a shift of n >= 1 bits
ShiftedOut(operation, a, n) ==
    LET w == 8 * Len(a)
    IN  CASE operation = "SHL" -> IF n <= w THEN BitOf(a, w - n) ELSE 0
          [] operation = "SHR" -> IF n <= w THEN BitOf(a, n - 1) ELSE 0
          [] operation = "SAR" -> IF n <= w THEN BitOf(a, n - 1) ELSE MSB(a)

\* the address just past the instruction of handler call e
InsnEnd(e) ==
    CASE e.h.fam = "r_imm" -> e.pre.eip + Size(e)
      [] e.h.fam = "rm_imm" ->
            DecodedBy(e).eip + (IF e.h._8bit_imm THEN 1 ELSE e.pre.operand_size)
      [] e.h.fam = "shift" /\ e.h.cnt = "C_imm8" -> DecodedBy(e).eip + 1
      [] OTHER -> DecodedBy(e).eip

\* TEST for the calls of the given handlers: unless the handler rejects the
\* encoding or an access is out of bounds, the instruction is accepted,
\* registers and memory are as before, the flags are those of a AND b and
\* EIP is just past the instruction
TestLaw(fams) ==
    \A i \in Calls({"handler"}) :
        (/\ hist[i].h.fam \in fams
         /\ hist[i].h.test
         /\ hist[i].out \notin {"rejected", "OutOfBounds"})
        => /\ hist[i].out = "accepted"
           /\ hist[i].post.reg = hist[i].pre.reg
           /\ hist[i].post.memory = hist[i].pre.memory
           /\ hist[i].post.eip = InsnEnd(hist[i])
           /\ LET c == BytesOp("and_", BitwiseA(hist[i]), BitwiseB(hist[i]))
                  fl == hist[i].post.eflags
              IN  /\ fl["CF"] = 0
                  /\ fl["OF"] = 0
                  /\ fl["ZF"] = Bool(IsZero(c))
                  /\ fl["SF"] = MSB(c)
                  /\ fl["PF"] = EvenParity(c[1])
                  /\ fl["AF"] = hist[i].pre.eflags["AF"]

\* C11 (TEST discards its result): for each TEST encoding (A8/A9 accumulator
\* with immediate, F6/F7 /0 r/m with immediate, 84/85 r/m with register) the
\* instruction is accepted and leaves every register and memory byte
\* unchanged; only the flags, set as for AND, and EIP change.
C11_TestDiscards == TestLaw({"r_imm", "rm_imm", "rm_r"})

\* TEST of the accumulator with an immediate and of r/m with a register
TestWithoutRmImm == TestLaw({"r_imm", "rm_r"})

\* C12 (NOT leaves flags unchanged): an accepted NOT leaves the one's
\* complement MAXVAL[sz] - a in its operand and every flag as it was; NOT AL
\* with AL = 0xAA gives AL = 0x55.
C12_NotFrame ==
    \A i \in Calls({"handler"}) :
        (hist[i].h.fam = "rm" /\ hist[i].h.operation = "NOT" /\ hist[i].out = "accepted")
        => /\ RMValue(hist[i], hist[i].post) = Complement(RMValue(hist[i], hist[i].pre))
           /\ hist[i].post.eflags = hist[i].pre.eflags

\* the part of C12 that NEGNOT.rm keeps: the flags, and a register operand
NotKeepsFlags ==
    \A i \in Calls({"handler"}) :
        (hist[i].h.fam = "rm" /\ hist[i].h.operation = "NOT" /\ hist[i].out = "accepted")
        => /\ hist[i].post.eflags = hist[i].pre.eflags
           /\ DecodedBy(hist[i]).RM.type = 0
              => RMValue(hist[i], hist[i].post) = Complement(RMValue(hist[i], hist[i].pre))

\* the result of the instruction of handler call e whose destination is its r/m operand
Result(e) ==
    CASE e.h.fam \in {"rm_imm", "rm_r"} -> BytesOp(e.h.operation, BitwiseA(e), BitwiseB(e))
      [] e.h.fam = "rm" /\ e.h.operation = "NOT" -> Complement(RMValue(e, e.pre))
      [] e.h.fam = "rm" /\ e.h.operation = "NEG" -> Increment(Complement(RMValue(e, e.pre)))
      [] e.h.fam = "shift" -> Shifted(e.h.operation, RMValue(e, e.pre), ShiftCount(e) % 32)

\* write-back for the calls of the given handlers: an accepted instruction
\* other than TEST with a memory operand leaves its result in memory at the
\* decoded address and every register as it was; with a register operand it
\* leaves its result in that register and memory as it was
WriteBack(fams) ==
    \A i \in Calls({"handler"}) :
        (/\ hist[i].h.fam \in fams
         /\ ~hist[i].h.test
         /\ hist[i].out = "accepted")
        => IF DecodedBy(hist[i]).RM.type # 0
           THEN /\ hist[i].post.reg = hist[i].pre.reg
                /\ RMValue(hist[i], hist[i].post) = Result(hist[i])
           ELSE /\ hist[i].post.memory = hist[i].pre.memory
                /\ RMValue(hist[i], hist[i].post) = Result(hist[i])

\* C13 (write-back to the destination operand): an accepted non-TEST
\* instruction of BITWISE, NEGNOT or SHIFT whose r/m operand is the
\* destination writes its result to memory at the decoded address and
\* modifies no register when the operand is in memory (mod # 3), and writes
\* it to the register and modifies no memory byte when it is a register.
C13_WriteBack == WriteBack({"rm_imm", "rm_r", "rm", "shift"})

\* BITWISE and SHIFT write their result back to the r/m operand
WriteBackWithoutNEGNOT == WriteBack({"rm_imm", "rm_r", "shift"})

\* the shift law: an accepted shift by a masked count n >= 1 leaves a shifted
\* by n in the operand, SF, ZF and PF of the result, and, for the given
\* operations, the last bit shifted out in CF
ShiftLaw(carry) ==
    \A i \in Calls({"handler"}) :
        (/\ hist[i].h.fam = "shift"
         /\ hist[i].out = "accepted"
         /\ ShiftCount(hist[i]) % 32 >= 1)
        => LET a == RMValue(hist[i], hist[i].pre)
               n == ShiftCount(hist[i]) % 32
               r == Shifted(hist[i].h.operation, a, n)
               fl == hist[i].post.eflags
           IN  /\ RMValue(hist[i], hist[i].post) = r
               /\ hist[i].h.operation \in carry
                  => fl["CF"] = ShiftedOut(hist[i].h.operation, a, n)
               /\ fl["SF"] = MSB(r)
               /\ fl["ZF"] = Bool(IsZero(r))
               /\ fl["PF"] = EvenParity(r[1])

\* C14 (shift result and carry): for a masked count n >= 1, SHL writes
\* (a << n) mod 2^(sz*8), SHR the logical and SAR the arithmetic right shift
\* of a by n; CF is the last bit shifted out; SF, ZF and PF are those of the
\* result.
C14_ShiftResult == ShiftLaw({"SHL", "SHR", "SAR"})

\* the law with CF left out for SHL
ShiftLawRight == ShiftLaw({"SHR", "SAR"})

\* the opcodes with several candidate handlers, and the extensions they expect
SharedOpcodes == {op \in 0..255 : Len(dispatch(op)) > 1}
Extensions(op) == {Extension(dispatch(op)[k]) : k \in 1..Len(dispatch(op))}

\* the ModR/M byte of handler call e lies in memory, with its addressing bytes
Decodable(e) ==
    /\ e.pre.eip \in 0..(Len(e.pre.memory) - 1)
    /\ (NoMoreBytes(ModRM(e.pre)) \/ DecodedBy(e).ok)

\* dispatch on the extension, for the handler calls that satisfy ok: the
\* candidates of an opcode expect different extensions; a candidate accepts
\* only its own extension and does not reject it; any other candidate
\* rejects and restores the state; when no candidate expects the reg field
\* the last rejection ends the instruction with InvalidOpcode
ExtensionDispatch(ok(_)) ==
    /\ \A op \in SharedOpcodes : Cardinality(Extensions(op)) = Len(dispatch(op))
    /\ \A i \in Calls({"handler"}) :
        LET e == hist[i]
            regf == RegField(ModRM(e.pre))
            cands == dispatch(e.opcode)
        IN  (e.opcode \in SharedOpcodes /\ ok(e))
            => /\ e.out = "accepted" => Extension(e.h) = regf
               /\ Extension(e.h) = regf => e.out # "rejected"
               /\ Extension(e.h) # regf => (e.out = "rejected" /\ e.post = e.pre)
               /\ (regf \notin Extensions(e.opcode) /\ e.h = cands[Len(cands)])
                  => /\ i < Len(hist)
                     /\ hist[i + 1].op = "step"
                     /\ hist[i + 1].out = "InvalidOpcode"

\* C15 (extension dispatch is unambiguous): at an opcode with several
\* candidates (80/81/83, F6/F7, C0/C1/D0-D3) and for every reg value 0..7 of
\* a ModR/M byte in memory, at most one candidate accepts, the one whose
\* extension is the reg field, whatever the registration order; for a reg
\* value no candidate expects every candidate rejects with EIP restored and
\* the outcome is InvalidOpcode.
C15_ExtensionDispatch == ExtensionDispatch(Decodable)

\* the same where the decoder has read the ModR/M byte
Decoded_ok(e) == DecodedBy(e).ok
ExtensionDispatchDecoded == ExtensionDispatch(Decoded_ok)

\* the bytes of the immediate of BITWISE.rm_imm call e, as they lie in memory
Immediate(e) == SubSeq(e.pre.memory, DecodedBy(e).eip + 1, InsnEnd(e))

\* C16 (immediate width and sign extension): AND, OR, XOR r/m, imm at
\* opcode 83 consume one immediate byte, sign-extended to the operand size
\* (FF acts as all ones, 7F as 0000007F), at 80 one byte and at 81 sz bytes;
\* the instruction is accepted, the operand becomes a op immediate and EIP
\* points just past the immediate.
C16_ImmediateWidth ==
    \A i \in Calls({"handler"}) :
        (/\ hist[i].h.fam = "rm_imm"
         /\ ~hist[i].h.test
         /\ hist[i].out \notin {"rejected", "OutOfBounds"})
        => /\ hist[i].out = "accepted"
           /\ Len(Immediate(hist[i])) = (IF hist[i].opcode = 129 THEN Size(hist[i]) ELSE 1)
           /\ hist[i].post.eip = InsnEnd(hist[i])
           /\ RMValue(hist[i], hist[i].post)
                = BytesOp(hist[i].h.operation, RMValue(hist[i], hist[i].pre),
                          SignExtended(Immediate(hist[i]), Size(hist[i])))

\* what BITWISE.rm_imm does of C16: it reads an immediate of the claimed
\* width and leaves EIP just past it
ImmediateConsumed ==
    \A i \in Calls({"handler"}) :
        (/\ hist[i].h.fam = "rm_imm"
         /\ hist[i].out \notin {"rejected", "OutOfBounds"})
        => /\ Len(Immediate(hist[i])) = (IF hist[i].opcode \in {129, 247} THEN Size(hist[i]) ELSE 1)
           /\ hist[i].post.eip = InsnEnd(hist[i])

\* the minimum signed value of its width: 0x80, 0x8000, 0x80000000
MinSigned(data) ==
    /\ data[Len(data)] = 128
    /\ \A k \in 1..(Len(data) - 1) : data[k] = 0

\* C17 (NEG overflow flag): after an accepted NEG of a, OF is set if and only
\* if a is the minimum signed value of its width, and cleared otherwise.
C17_NegOverflow ==
    \A i \in Calls({"handler"}) :
        (hist[i].h.fam = "rm" /\ hist[i].h.operation = "NEG" /\ hist[i].out = "accepted")
        => hist[i].post.eflags["OF"] = Bool(MinSigned(RMValue(hist[i], hist[i].pre)))

\* what NEGNOT.rm does with OF and AF: nothing
NegKeepsOverflow ==
    \A i \in Calls({"handler"}) :
        (hist[i].h.fam = "rm" /\ hist[i].h.operation = "NEG" /\ hist[i].out = "accepted")
        => /\ hist[i].post.eflags["OF"] = hist[i].pre.eflags["OF"]
           /\ hist[i].post.eflags["AF"] = hist[i].pre.eflags["AF"]

\* C18 (the stack stays inside its region): from the reset state and through
\* any sequence of stack_push and stack_pop with value length and pop size
\* equal to operand_size, code_segment_end <= ESP <= N-1; a call that fails
\* leaves the state as it was and no successful push modifies a byte below
\* code_segment_end.
C18_StackRegion ==
    /\ code_segment_end <= ESP(VM)
    /\ ESP(VM) <= Len(memory) - 1
    /\ \A i \in Calls({"push", "pop"}) :
        /\ hist[i].out # "ok" => hist[i].post = hist[i].pre
        /\ (hist[i].op = "push" /\ hist[i].out = "ok")
           => \A k \in 1..Len(hist[i].pre.memory) :
                  k - 1 < hist[i].pre.code_segment_end
                  => hist[i].post.memory[k] = hist[i].pre.memory[k]

\* pushes down to the end of the code segment, the next one refused, and a pop
C18_Witness ==
    /\ \E i \in Calls({"push"}) : hist[i].out = "StackOverflow"
    /\ \E i \in Calls({"push"}) :
        /\ hist[i].out = "ok"
        /\ ESP(hist[i].post) - hist[i].post.operand_size < hist[i].post.code_segment_end
    /\ \E i \in Calls({"pop"}) : hist[i].out = "ok"

=============================================================================
